---- MODULE Spec2Model ----
(***************************************************************************)
(* Model of the systematic-review screening assistant:                     *)
(*   survey_classifier.py     the evaluation tool (process_bib and main)   *)
(*   generate_accepted_bib.py the filter tool (create_accepted_bib)        *)
(*                                                                         *)
(* Text that the code inspects character by character (the oracle's        *)
(* response, a verdict's status, criteria and reasoning, a results row's   *)
(* status) is a sequence of characters, each character a one-element       *)
(* string.  Text that the code only copies and compares for equality (a    *)
(* citekey, a title, an abstract, the criteria document) is a string.      *)
(***************************************************************************)
EXTENDS Integers, Sequences, FiniteSets, TLC

\* ------------------------------------------------------------ bounds
\* Longest bibliography (entries) the pipeline specification draws.
MaxEntries == 2
\* Most fragments (lines) an oracle response is built from in SpecParse.
MaxFrags == 3
\* Longest bibliography and longest results table SpecFilter draws.
MaxBib == 2
MaxRows == 2

\* ------------------------------------------------------------ characters
UPPER == <<"A", "B", "C", "D", "E", "F", "G", "H", "I", "J", "K", "L", "M",
           "N", "O", "P", "Q", "R", "S", "T", "U", "V", "W", "X", "Y", "Z">>
LOWER == <<"a", "b", "c", "d", "e", "f", "g", "h", "i", "j", "k", "l", "m",
           "n", "o", "p", "q", "r", "s", "t", "u", "v", "w", "x", "y", "z">>
\* U+017F LATIN SMALL LETTER LONG S: a lower-case letter whose upper case is "S".
LONG_S == "U+017F"

\* str.lower() on one character: an upper-case letter becomes its lower case,
\* every other character (the long s is lower case already) is unchanged.
PyLowerChar(c) ==
    IF \E k \in 1..Len(UPPER) : UPPER[k] = c
    THEN LOWER[CHOOSE k \in 1..Len(UPPER) : UPPER[k] = c]
    ELSE c

\* str.lower()
PyLower(s) == [k \in 1..Len(s) |-> PyLowerChar(s[k])]

\* re.IGNORECASE on a str pattern: a pattern letter p matches a text character
\* c when their lower cases agree, or when c is another case of p; the only
\* non-ASCII case of a letter of the Status pattern is the long s, a case of "s".
CharEqIgnoreCase(p, c) ==
    \/ PyLowerChar(p) = PyLowerChar(c)
    \/ PyLowerChar(p) = "s" /\ c = LONG_S

\* \s and \d
IsSpace(c) == c \in {" ", "\n", "\t", "\r"}
IsDigit(c) == c \in {"0", "1", "2", "3", "4", "5", "6", "7", "8", "9"}

\* ------------------------------------------------------------ literals
STATUS_LABEL == <<"S", "t", "a", "t", "u", "s", ":">>
CRITERIA_LABEL == <<"C", "r", "i", "t", "e", "r", "i", "a", ":">>
REASONING_LABEL == <<"R", "e", "a", "s", "o", "n", "i", "n", "g", ":">>
ACCEPTED == <<"a", "c", "c", "e", "p", "t", "e", "d">>
REJECTED == <<"r", "e", "j", "e", "c", "t", "e", "d">>
NOT_SURE == <<"n", "o", "t", "-", "s", "u", "r", "e">>
NOT_SPECIFIED == <<"n", "o", "t", "-", "s", "p", "e", "c", "i", "f", "i", "e", "d">>
API_ERROR == <<"a", "p", "i", "-", "e", "r", "r", "o", "r">>
PARSE_ERROR == <<"p", "a", "r", "s", "e", "-", "e", "r", "r", "o", "r">>
EVALUATION_FAILED == <<"E", "v", "a", "l", "u", "a", "t", "i", "o", "n", " ",
                       "f", "a", "i", "l", "e", "d">>
PARSING_FAILED == <<"R", "e", "s", "p", "o", "n", "s", "e", " ",
                    "p", "a", "r", "s", "i", "n", "g", " ",
                    "f", "a", "i", "l", "e", "d">>
EMPTY == << >>

\* The alternatives of the status pattern, in the pattern's order.
StatusWords == <<ACCEPTED, REJECTED, NOT_SURE>>
\* The alternatives of the criteria pattern's prefix.
CriteriaPrefixes == <<<<"C", "I">>, <<"C", "X">>>>

\* ------------------------------------------------------------ regex
\* The literal lit matches text at position p (ci: ignoring case).
MatchAt(text, p, lit, ci) ==
    /\ p >= 1
    /\ p + Len(lit) - 1 <= Len(text)
    /\ \A k \in 1..Len(lit) :
          IF ci THEN CharEqIgnoreCase(lit[k], text[p + k - 1])
                ELSE lit[k] = text[p + k - 1]

RECURSIVE SkipSpace(_, _)
\* \s* from position p: the position after the longest run of white space.
\* What follows \s* in each pattern starts with a character that is not white
\* space, so the greedy run is the only one that can match.
SkipSpace(text, p) ==
    IF p <= Len(text) /\ IsSpace(text[p]) THEN SkipSpace(text, p + 1) ELSE p

RECURSIVE SkipDigits(_, _)
\* \d* from position p.
SkipDigits(text, p) ==
    IF p <= Len(text) /\ IsDigit(text[p]) THEN SkipDigits(text, p + 1) ELSE p

NoMatch == [found |-> FALSE, group |-> EMPTY]
Match(g) == [found |-> TRUE, group |-> g]

\* The least position of ps at which the pattern matches: re.search's match.
Leftmost(ps) == CHOOSE p \in ps : \A q \in ps : p <= q

\* The status pattern compiled without re.IGNORECASE.
StatusMatchAtCaseSensitive(text, p) ==
    IF ~MatchAt(text, p, STATUS_LABEL, FALSE) THEN NoMatch
    ELSE LET q == SkipSpace(text, p + Len(STATUS_LABEL))
             ws == {k \in 1..Len(StatusWords) : MatchAt(text, q, StatusWords[k], FALSE)}
         IN  IF ws = {} THEN NoMatch
             ELSE Match(SubSeq(text, q, q + Len(StatusWords[Leftmost(ws)]) - 1))

\* Status:\s*(accepted|rejected|not-sure) with re.IGNORECASE, anchored at p.
StatusMatchAt(text, p) ==
    IF ~MatchAt(text, p, STATUS_LABEL, TRUE) THEN NoMatch
    ELSE LET q == SkipSpace(text, p + Len(STATUS_LABEL))
             ws == {k \in 1..Len(StatusWords) : MatchAt(text, q, StatusWords[k], TRUE)}
         IN  IF ws = {} THEN NoMatch
             ELSE Match(SubSeq(text, q, q + Len(StatusWords[Leftmost(ws)]) - 1))

\* Criteria:\s*((CI|CX)\d+), case-sensitive, anchored at p.
CriteriaMatchAt(text, p) ==
    IF ~MatchAt(text, p, CRITERIA_LABEL, FALSE) THEN NoMatch
    ELSE LET q == SkipSpace(text, p + Len(CRITERIA_LABEL))
             ws == {k \in 1..Len(CriteriaPrefixes) :
                       MatchAt(text, q, CriteriaPrefixes[k], FALSE)}
             d == q + 2
             e == SkipDigits(text, d)
         IN  IF ws = {} \/ e = d THEN NoMatch
             ELSE Match(SubSeq(text, q, e - 1))

\* Reasoning:\s*(.*) with re.DOTALL, case-sensitive, anchored at p: the group
\* runs to the end of the text.
ReasoningMatchAt(text, p) ==
    IF ~MatchAt(text, p, REASONING_LABEL, FALSE) THEN NoMatch
    ELSE LET q == SkipSpace(text, p + Len(REASONING_LABEL))
         IN  Match(SubSeq(text, q, Len(text)))

\* re.search: the match at the leftmost position that has one.
SearchStatus(text) ==
    LET ps == {p \in 1..Len(text) : StatusMatchAt(text, p).found}
    IN  IF ps = {} THEN NoMatch ELSE StatusMatchAt(text, Leftmost(ps))

SearchCriteria(text) ==
    LET ps == {p \in 1..Len(text) : CriteriaMatchAt(text, p).found}
    IN  IF ps = {} THEN NoMatch ELSE CriteriaMatchAt(text, Leftmost(ps))

SearchReasoning(text) ==
    LET ps == {p \in 1..Len(text) : ReasoningMatchAt(text, p).found}
    IN  IF ps = {} THEN NoMatch ELSE ReasoningMatchAt(text, Leftmost(ps))

RECURSIVE LStrip(_)
LStrip(s) == IF s # EMPTY /\ IsSpace(Head(s)) THEN LStrip(Tail(s)) ELSE s

RECURSIVE RStrip(_)
RStrip(s) ==
    IF s # EMPTY /\ IsSpace(s[Len(s)]) THEN RStrip(SubSeq(s, 1, Len(s) - 1)) ELSE s

\* str.strip()
PyStrip(s) == RStrip(LStrip(s))

\* ------------------------------------------------------------ parse_response
\* What the oracle call hands back: it raises ("raise"), or it returns a
\* completion whose message content is None ("none") or a text ("text").
Raise == [kind |-> "raise", text |-> EMPTY]
NoneContent == [kind |-> "none", text |-> EMPTY]
Content(t) == [kind |-> "text", text |-> t]

Evaluation(s, c, r) == [status |-> s, criteria |-> c, reasoning |-> r]

\* The verdict parse_response returns when its own code throws.
ParseErrorSentinel == Evaluation(NOT_SURE, PARSE_ERROR, PARSING_FAILED)

\* parse_response(response_text): re.search on None throws TypeError, which the
\* function's own except turns into the parse-error sentinel.
parse_response(response) ==
    IF response.kind # "text" THEN ParseErrorSentinel
    ELSE LET text == response.text
             status_match == SearchStatus(text)
             criteria_match == SearchCriteria(text)
             reasoning_match == SearchReasoning(text)
         IN  Evaluation(
                 IF status_match.found THEN PyLower(status_match.group) ELSE NOT_SURE,
                 IF criteria_match.found THEN criteria_match.group ELSE NOT_SPECIFIED,
                 IF reasoning_match.found THEN PyStrip(reasoning_match.group) ELSE EMPTY)

\* ------------------------------------------------------------ responses
\* A response is built from fragments, one per line.  A fragment has the field
\* it is meant for (kind), its label and its value as written, whether the
\* label is written exactly as the prompt asks (exact) and whether the value is
\* a legal value of the field when letter case is ignored (valid).
Frag(k, l, v, x, ok) == [kind |-> k, label |-> l, value |-> v, exact |-> x, valid |-> ok]

FragPool == {
    Frag("status", STATUS_LABEL, ACCEPTED, TRUE, TRUE),
    Frag("status", <<"s", "t", "a", "t", "u", "s", ":">>,
         <<"R", "E", "J", "E", "C", "T", "E", "D">>, FALSE, TRUE),
    Frag("status", STATUS_LABEL, <<"n", "o", "t", "-", LONG_S, "u", "r", "e">>, TRUE, TRUE),
    Frag("status", STATUS_LABEL, <<"m", "a", "y", "b", "e">>, TRUE, FALSE),
    Frag("criteria", CRITERIA_LABEL, <<"C", "I", "3">>, TRUE, TRUE),
    Frag("criteria", <<"c", "r", "i", "t", "e", "r", "i", "a", ":">>,
         <<"c", "i", "3">>, FALSE, TRUE),
    Frag("criteria", CRITERIA_LABEL, <<"C", "X", "1", "2">>, TRUE, TRUE),
    Frag("criteria", CRITERIA_LABEL,
         <<"n", "o", "t", "-", "a", "p", "p", "l", "i", "c", "a", "b", "l", "e">>,
         TRUE, FALSE),
    Frag("reasoning", REASONING_LABEL, <<"f", "i", "t", "s", " ", "w", "e", "l", "l">>,
         TRUE, TRUE),
    Frag("reasoning", <<"R", "E", "A", "S", "O", "N", "I", "N", "G", ":">>,
         <<"f", "i", "t", "s">>, FALSE, TRUE),
    Frag("junk", <<"o", "k">>, EMPTY, TRUE, FALSE) }

\* Every sequence of at most n elements of S.
SeqsUpTo(S, n) == UNION {[1..k -> S] : k \in 0..n}

\* A fragment as the oracle writes it: label, a space, value.
RenderFrag(f) == IF f.value = EMPTY THEN f.label ELSE f.label \o <<" ">> \o f.value

RECURSIVE RenderFrags(_)
\* The response text: the fragments joined by line feeds.
RenderFrags(fs) ==
    IF Len(fs) = 0 THEN EMPTY
    ELSE IF Len(fs) = 1 THEN RenderFrag(fs[1])
    ELSE RenderFrag(fs[1]) \o <<"\n">> \o RenderFrags(Tail(fs))

\* The responses the oracle gives in the pipeline specification: a well-formed
\* acceptance, a rejection in other letter case, a status written with a long s,
\* and a text with no field at all.
OracleTexts == {
    RenderFrags(<<Frag("status", STATUS_LABEL, ACCEPTED, TRUE, TRUE),
                  Frag("criteria", CRITERIA_LABEL, <<"C", "I", "3">>, TRUE, TRUE),
                  Frag("reasoning", REASONING_LABEL,
                       <<"f", "i", "t", "s", " ", "w", "e", "l", "l">>, TRUE, TRUE)>>),
    RenderFrags(<<Frag("status", <<"s", "t", "a", "t", "u", "s", ":">>,
                       <<"R", "E", "J", "E", "C", "T", "E", "D">>, FALSE, TRUE)>>),
    RenderFrags(<<Frag("status", STATUS_LABEL,
                       <<"n", "o", "t", "-", LONG_S, "u", "r", "e">>, TRUE, TRUE)>>),
    RenderFrags(<<Frag("junk", <<"o", "k">>, EMPTY, TRUE, FALSE)>>) }

OracleOutcomes == {Raise, NoneContent} \cup {Content(t) : t \in OracleTexts}

\* ------------------------------------------------------------ evaluate_entry
\* The verdict evaluate_entry returns when the oracle call raises.
ApiErrorSentinel == Evaluation(NOT_SURE, API_ERROR, EVALUATION_FAILED)

\* evaluate_entry whose except clause reports the failure as a parse error.
evaluate_entry_wrong_sentinel(outcome) ==
    IF outcome.kind = "raise" THEN ParseErrorSentinel ELSE parse_response(outcome)

\* evaluate_entry whose except clause lets the entry through as accepted.
evaluate_entry_accepts_failure(outcome) ==
    IF outcome.kind = "raise" THEN Evaluation(ACCEPTED, API_ERROR, EVALUATION_FAILED)
    ELSE parse_response(outcome)

\* evaluate_entry, given what the oracle call does: an exception of the call
\* becomes the api-error sentinel, a completion goes through parse_response.
evaluate_entry(outcome) ==
    IF outcome.kind = "raise" THEN ApiErrorSentinel ELSE parse_response(outcome)

\* dict.get(key, default)
Get(e, key, default) == IF key \in DOMAIN e THEN e[key] ELSE default

\* The request evaluate_entry sends for the idx-th entry (idx is not sent; it
\* records which iteration of process_entries issued the request).
Request(idx, entry, criteria, model) ==
    [index |-> idx,
     title |-> Get(entry, "title", ""),
     abstract |-> Get(entry, "abstract", ""),
     criteria |-> criteria,
     model |-> model]

\* A client that sends every request twice.
CallOracleTwice(cs, idx, entry, criteria, model) ==
    Append(Append(cs, Request(idx, entry, criteria, model)),
           Request(idx, entry, criteria, model))

\* client.chat.completions.create: one request is sent.
CallOracle(cs, idx, entry, criteria, model) ==
    Append(cs, Request(idx, entry, criteria, model))

\* A row that takes its citekey from the title.
VerdictKeyFromTitle(entry, evaluation) ==
    [citekey |-> Get(entry, "title", ""),
     title |-> Get(entry, "title", ""),
     status |-> evaluation.status,
     criteria |-> evaluation.criteria,
     reasoning |-> evaluation.reasoning]

\* The row process_entries appends for an entry and its evaluation.
Verdict(entry, evaluation) ==
    [citekey |-> Get(entry, "ID", "N/A"),
     title |-> Get(entry, "title", ""),
     status |-> evaluation.status,
     criteria |-> evaluation.criteria,
     reasoning |-> evaluation.reasoning]

\* ------------------------------------------------------------ files
NoFile == [exists |-> FALSE, content |-> << >>]
File(c) == [exists |-> TRUE, content |-> c]

RESULTS_CSV == "results.csv"
ACCEPTED_BIB == "accepted.bib"
MODEL_NAME == "gpt-4o-mini"

Returned(v) == [exc |-> "", value |-> v]
Raised(e) == [exc |-> e, value |-> << >>]

\* load_criteria: the file's text, or the error of opening it, re-raised.
load_criteria(file) ==
    IF file.exists THEN Returned(file.content) ELSE Raised("FileNotFoundError")

\* load_bib_entries that answers a missing file with no entries.
load_bib_entries_swallows(file) ==
    IF file.exists THEN Returned(file.content) ELSE Returned(<< >>)

\* load_bib_entries: the file's entries, or the error of opening it, re-raised.
load_bib_entries(file) ==
    IF file.exists THEN Returned(file.content) ELSE Raised("FileNotFoundError")

\* write_results_to_csv: the file's new content, or the error of opening it.
write_results_to_csv(rs, output_path, unwritable) ==
    IF output_path \in unwritable THEN Raised("PermissionError") ELSE Returned(rs)

\* calculate_statistics: counts[item['status']] += 1 raises KeyError for a
\* status that is not a key of counts; counts[status]/total raises
\* ZeroDivisionError when there are no results; otherwise the counts are logged.
calculate_statistics(rs) ==
    IF \E i \in 1..Len(rs) : rs[i].status \notin {ACCEPTED, REJECTED, NOT_SURE}
    THEN Raised("KeyError")
    ELSE IF Len(rs) = 0 THEN Raised("ZeroDivisionError")
    ELSE Returned(
        [counts |-> [s \in {ACCEPTED, REJECTED, NOT_SURE} |->
                        Cardinality({i \in 1..Len(rs) : rs[i].status = s})],
         criteria_counts |-> [c \in {rs[i].criteria : i \in 1..Len(rs)} |->
                        Cardinality({i \in 1..Len(rs) : rs[i].criteria = c})],
         total |-> Len(rs)])

\* ------------------------------------------------------------ create_accepted_bib
\* A results row as csv.DictReader yields it: a row shorter than the header has
\* None for the missing columns, modelled as a row without that field.
Row(k, st) == [citekey |-> k, status |-> st]
ShortRow(k) == [citekey |-> k]

\* create_accepted_bib comparing the status without lower().
create_accepted_bib_case_sensitive(results_csv, original_bib, output_file, unwritable) ==
    IF ~results_csv.exists THEN Raised("FileNotFoundError")
    ELSE LET rows == results_csv.content
         IN  IF \E i \in 1..Len(rows) : "status" \notin DOMAIN rows[i]
             THEN Raised("AttributeError")
             ELSE LET accepted_keys ==
                          {rows[i].citekey :
                              i \in {j \in 1..Len(rows) : rows[j].status = ACCEPTED}}
                  IN  IF ~original_bib.exists THEN Raised("FileNotFoundError")
                      ELSE IF output_file \in unwritable THEN Raised("PermissionError")
                      ELSE Returned(SelectSeq(original_bib.content,
                                       LAMBDA entry : Get(entry, "ID", "") \in accepted_keys))

\* create_accepted_bib: the entries written to output_file, or the error that
\* is logged and re-raised.  The results are read first (None.lower() raises
\* AttributeError), then the bibliography, then the output is opened.
create_accepted_bib(results_csv, original_bib, output_file, unwritable) ==
    IF ~results_csv.exists THEN Raised("FileNotFoundError")
    ELSE LET rows == results_csv.content
         IN  IF \E i \in 1..Len(rows) : "status" \notin DOMAIN rows[i]
             THEN Raised("AttributeError")
             ELSE LET accepted_keys ==
                          {rows[i].citekey :
                              i \in {j \in 1..Len(rows) : PyLower(rows[j].status) = ACCEPTED}}
                  IN  IF ~original_bib.exists THEN Raised("FileNotFoundError")
                      ELSE IF output_file \in unwritable THEN Raised("PermissionError")
                      ELSE Returned(SelectSeq(original_bib.content,
                                       LAMBDA entry : Get(entry, "ID", "") \in accepted_keys))

\* ------------------------------------------------------------ state
VARIABLES
    pc,                \* where the run is
    fs_criteria,       \* the criteria document on disk
    fs_bib,            \* the bibliography on disk
    fs_unwritable,     \* the output paths that cannot be opened for writing
    fs_results,        \* the results table on disk
    fs_accepted,       \* the filtered bibliography on disk
    criteria_content,  \* process_bib's criteria_content
    entries,           \* process_bib's entries
    results,           \* process_entries' results
    idx,               \* process_entries' idx
    calls,             \* the requests sent to the oracle, in order
    responses,         \* what the oracle did with each request, in order
    stats,             \* what calculate_statistics logged
    exc,               \* the exception in flight in the evaluation tool ("": none)
    bib_raised,        \* the exception process_bib raised to its caller
    exit1,             \* the evaluation tool's exit
    elapsed1,          \* the evaluation tool logged its elapsed time
    filter_raised,     \* the exception create_accepted_bib raised to its caller
    exit2,             \* the filter tool's exit
    elapsed2,          \* the filter tool logged its elapsed time
    frags,             \* the fragments of the response under parse
    response,          \* the response under parse
    parsed             \* parse_response's result

vars == <<pc, fs_criteria, fs_bib, fs_unwritable, fs_results, fs_accepted,
          criteria_content, entries, results, idx, calls, responses, stats, exc,
          bib_raised, exit1, elapsed1, filter_raised, exit2, elapsed2,
          frags, response, parsed>>

fs_vars == <<fs_criteria, fs_bib, fs_unwritable>>
parse_vars == <<frags, response, parsed>>
filter_vars == <<fs_accepted, filter_raised, exit2, elapsed2>>

\* The entries a bibliography is drawn from: bibtexparser gives every entry an
\* ID; title and abstract may be missing; two entries share the key "A".
EntryPool == {
    [ID |-> "A", title |-> "T1", abstract |-> "abs1"],
    [ID |-> "B", title |-> "T2"],
    [ID |-> "A", abstract |-> "abs3"],
    [ID |-> "C", title |-> "T1", abstract |-> "abs1"] }

\* The rows a results table is drawn from.
RowPool == {
    Row("A", ACCEPTED),
    Row("A", <<"A", "c", "c", "e", "p", "t", "e", "d">>),
    Row("B", <<"A", "C", "C", "E", "P", "T", "E", "D">>),
    Row("B", REJECTED),
    Row("C", NOT_SURE),
    Row("C", <<"a", "c", "c", "e", "p", "t", "e", "d", " ">>),
    Row("Z", ACCEPTED),
    ShortRow("A") }

NoStats == [reported |-> FALSE, value |-> << >>]
NoParse == [found |-> FALSE]

\* Neither tool has run.
Idle ==
    /\ criteria_content = ""
    /\ entries = << >>
    /\ results = << >>
    /\ idx = 0
    /\ calls = << >>
    /\ responses = << >>
    /\ stats = NoStats
    /\ exc = ""
    /\ bib_raised = ""
    /\ exit1 = "running"
    /\ elapsed1 = FALSE
    /\ fs_accepted = NoFile
    /\ filter_raised = ""
    /\ exit2 = "running"
    /\ elapsed2 = FALSE
    /\ frags = << >>
    /\ response = NoneContent
    /\ parsed = NoParse

\* The evaluation tool is started; the filter tool runs after it ends.
Init ==
    /\ pc = "main"
    /\ fs_criteria \in {NoFile, File("rubric")}
    /\ fs_bib \in {NoFile} \cup {File(es) : es \in SeqsUpTo(EntryPool, MaxEntries)}
    /\ fs_unwritable \in SUBSET {RESULTS_CSV, ACCEPTED_BIB}
    /\ fs_results = NoFile
    /\ Idle

\* ------------------------------------------------------------ survey_classifier.py
\* __main__: the arguments are parsed and process_bib is entered.
MainStart ==
    /\ pc = "main"
    /\ pc' = "load_criteria"
    /\ UNCHANGED <<fs_vars, fs_results, criteria_content, entries, results, idx, calls,
                   responses, stats, exc, bib_raised, exit1, elapsed1, filter_vars,
                   parse_vars>>

\* process_bib: criteria_content = load_criteria(criteria_path)
LoadCriteria ==
    /\ pc = "load_criteria"
    /\ LET r == load_criteria(fs_criteria)
       IN  IF r.exc = ""
           THEN /\ criteria_content' = r.value
                /\ pc' = "load_bib_entries"
                /\ exc' = exc
           ELSE /\ exc' = r.exc
                /\ pc' = "process_bib_except"
                /\ criteria_content' = criteria_content
    /\ UNCHANGED <<fs_vars, fs_results, entries, results, idx, calls, responses, stats,
                   bib_raised, exit1, elapsed1, filter_vars, parse_vars>>

\* process_bib: entries = load_bib_entries(input_path), then process_entries
\* starts with no results.
LoadBibEntries ==
    /\ pc = "load_bib_entries"
    /\ LET r == load_bib_entries(fs_bib)
       IN  IF r.exc = ""
           THEN /\ entries' = r.value
                /\ pc' = "process_entries"
                /\ exc' = exc
           ELSE /\ exc' = r.exc
                /\ pc' = "process_bib_except"
                /\ entries' = entries
    /\ results' = << >>
    /\ idx' = 0
    /\ UNCHANGED <<fs_vars, fs_results, criteria_content, calls, responses, stats,
                   bib_raised, exit1, elapsed1, filter_vars, parse_vars>>

\* process_entries: the loop takes the next entry and evaluate_entry sends its
\* request; the call blocks until the oracle answers.
EvaluateEntryCall ==
    /\ pc = "process_entries"
    /\ idx < Len(entries)
    /\ idx' = idx + 1
    /\ calls' = CallOracle(calls, idx + 1, entries[idx + 1], criteria_content, MODEL_NAME)
    /\ pc' = "oracle"
    /\ UNCHANGED <<fs_vars, fs_results, criteria_content, entries, results, responses,
                   stats, exc, bib_raised, exit1, elapsed1, filter_vars, parse_vars>>

\* The oracle call ends (it raises, or returns a completion); evaluate_entry
\* returns its evaluation and process_entries appends the entry's row.
EvaluateEntryReturn ==
    /\ pc = "oracle"
    /\ \E outcome \in OracleOutcomes :
          /\ responses' = Append(responses, outcome)
          /\ results' = Append(results, Verdict(entries[idx], evaluate_entry(outcome)))
    /\ pc' = "process_entries"
    /\ UNCHANGED <<fs_vars, fs_results, criteria_content, entries, idx, calls, stats,
                   exc, bib_raised, exit1, elapsed1, filter_vars, parse_vars>>

\* process_entries: the loop is over and results is returned.
ProcessEntriesReturn ==
    /\ pc = "process_entries"
    /\ idx >= Len(entries)
    /\ pc' = "write_results_to_csv"
    /\ UNCHANGED <<fs_vars, fs_results, criteria_content, entries, results, idx, calls,
                   responses, stats, exc, bib_raised, exit1, elapsed1, filter_vars,
                   parse_vars>>

\* process_bib: write_results_to_csv(results, output_path)
WriteResultsToCsv ==
    /\ pc = "write_results_to_csv"
    /\ LET r == write_results_to_csv(results, RESULTS_CSV, fs_unwritable)
       IN  IF r.exc = ""
           THEN /\ fs_results' = File(r.value)
                /\ pc' = "calculate_statistics"
                /\ exc' = exc
           ELSE /\ exc' = r.exc
                /\ pc' = "process_bib_except"
                /\ fs_results' = fs_results
    /\ UNCHANGED <<fs_vars, criteria_content, entries, results, idx, calls, responses,
                   stats, bib_raised, exit1, elapsed1, filter_vars, parse_vars>>

\* process_bib: calculate_statistics(results), then the normal return to main.
CalculateStatistics ==
    /\ pc = "calculate_statistics"
    /\ LET r == calculate_statistics(results)
       IN  IF r.exc = ""
           THEN /\ stats' = [reported |-> TRUE, value |-> r.value]
                /\ pc' = "main_finally"
                /\ exc' = exc
           ELSE /\ exc' = r.exc
                /\ pc' = "process_bib_except"
                /\ stats' = stats
    /\ UNCHANGED <<fs_vars, fs_results, criteria_content, entries, results, idx, calls,
                   responses, bib_raised, exit1, elapsed1, filter_vars, parse_vars>>

\* process_bib's except clause: the error is logged and raised again.
ProcessBibExcept ==
    /\ pc = "process_bib_except"
    /\ bib_raised' = exc
    /\ pc' = "main_except"
    /\ UNCHANGED <<fs_vars, fs_results, criteria_content, entries, results, idx, calls,
                   responses, stats, exc, exit1, elapsed1, filter_vars, parse_vars>>

\* __main__'s except clause: the error is logged, and not raised again.
MainExcept ==
    /\ pc = "main_except"
    /\ exc' = ""
    /\ pc' = "main_finally"
    /\ UNCHANGED <<fs_vars, fs_results, criteria_content, entries, results, idx, calls,
                   responses, stats, bib_raised, exit1, elapsed1, filter_vars, parse_vars>>

\* __main__'s finally clause logs the elapsed time; the process then exits, with
\* status 1 if an exception is still in flight and 0 otherwise.
MainFinally ==
    /\ pc = "main_finally"
    /\ elapsed1' = TRUE
    /\ exit1' = IF exc = "" THEN "exit 0" ELSE "exit 1"
    /\ pc' = "filter_main"
    /\ UNCHANGED <<fs_vars, fs_results, criteria_content, entries, results, idx, calls,
                   responses, stats, exc, bib_raised, filter_vars, parse_vars>>

\* ------------------------------------------------------------ generate_accepted_bib.py
\* __main__ calls create_accepted_bib: on success the output is written and the
\* elapsed time logged inside the function; on an error the function logs it
\* and raises it again, nothing catches it and the process exits with status 1.
CreateAcceptedBib ==
    /\ pc = "filter_main"
    /\ LET r == create_accepted_bib(fs_results, fs_bib, ACCEPTED_BIB, fs_unwritable)
       IN  IF r.exc = ""
           THEN /\ fs_accepted' = File(r.value)
                /\ elapsed2' = TRUE
                /\ exit2' = "exit 0"
                /\ filter_raised' = ""
           ELSE /\ fs_accepted' = fs_accepted
                /\ elapsed2' = FALSE
                /\ exit2' = "exit 1"
                /\ filter_raised' = r.exc
    /\ pc' = "done"
    /\ UNCHANGED <<fs_vars, fs_results, criteria_content, entries, results, idx, calls,
                   responses, stats, exc, bib_raised, exit1, elapsed1, parse_vars>>

Next ==
    \/ MainStart
    \/ LoadCriteria
    \/ LoadBibEntries
    \/ EvaluateEntryCall
    \/ EvaluateEntryReturn
    \/ ProcessEntriesReturn
    \/ WriteResultsToCsv
    \/ CalculateStatistics
    \/ ProcessBibExcept
    \/ MainExcept
    \/ MainFinally
    \/ CreateAcceptedBib

\* The evaluation tool, then the filter tool on the same files.
Spec == Init /\ [][Next]_vars

\* ------------------------------------------------------------ the filter alone
\* The filter tool is started on any bibliography and any results table.
InitFilter ==
    /\ pc = "filter_main"
    /\ fs_criteria = NoFile
    /\ fs_bib \in {NoFile} \cup {File(es) : es \in SeqsUpTo(EntryPool, MaxBib)}
    /\ fs_unwritable \in SUBSET {ACCEPTED_BIB}
    /\ fs_results \in {NoFile} \cup {File(rows) : rows \in SeqsUpTo(RowPool, MaxRows)}
    /\ Idle

NextFilter == CreateAcceptedBib

SpecFilter == InitFilter /\ [][NextFilter]_vars

\* ------------------------------------------------------------ the parser alone
\* parse_response is about to be applied to a response.
InitParse ==
    /\ pc = "parse"
    /\ fs_criteria = NoFile
    /\ fs_bib = NoFile
    /\ fs_unwritable = {}
    /\ fs_results = NoFile
    /\ criteria_content = ""
    /\ entries = << >>
    /\ results = << >>
    /\ idx = 0
    /\ calls = << >>
    /\ responses = << >>
    /\ stats = NoStats
    /\ exc = ""
    /\ bib_raised = ""
    /\ exit1 = "running"
    /\ elapsed1 = FALSE
    /\ fs_accepted = NoFile
    /\ filter_raised = ""
    /\ exit2 = "running"
    /\ elapsed2 = FALSE
    /\ frags \in SeqsUpTo(FragPool, MaxFrags)
    /\ response \in {Content(RenderFrags(frags))}
                      \cup (IF frags = << >> THEN {NoneContent} ELSE {})
    /\ parsed = NoParse

\* parse_response(response)
ParseResponse ==
    /\ pc = "parse"
    /\ parsed' = [found |-> TRUE] @@ parse_response(response)
    /\ pc' = "parsed"
    /\ UNCHANGED <<fs_vars, fs_results, criteria_content, entries, results, idx, calls,
                   responses, stats, exc, bib_raised, exit1, elapsed1, filter_vars,
                   frags, response>>

NextParse == ParseResponse

SpecParse == InitParse /\ [][NextParse]_vars

\* ------------------------------------------------------------ properties
\* process_entries has returned (or was never entered because a load failed).
AfterProcessEntries ==
    pc \notin {"main", "load_criteria", "load_bib_entries", "process_entries", "oracle",
               "parse", "parsed"}

\* process_bib has returned or raised to __main__.
AfterProcessBib == pc \in {"main_except", "main_finally", "filter_main", "done"}

Sentinel(v, e) ==
    /\ v.status = e.status
    /\ v.criteria = e.criteria
    /\ v.reasoning = e.reasoning

\* C1: process_entries returns one verdict per entry, in the entries' order: the
\* i-th verdict carries the citekey and the title of the i-th entry, whatever
\* the oracle did (answered, raised, returned no content), and when the
\* function has returned there are as many verdicts as entries.
C1_OneVerdictPerEntryInOrder ==
    /\ Len(results) <= Len(entries)
    /\ \A i \in 1..Len(results) :
          /\ results[i].citekey = entries[i].ID
          /\ results[i].title = Get(entries[i], "title", "")
    /\ AfterProcessEntries => Len(results) = Len(entries)

\* C1 witness: process_entries has just returned two verdicts, the first for an
\* oracle call that raised, the second for a completion without content.
C1_Witness ==
    /\ pc = "write_results_to_csv"
    /\ Len(results) = 2
    /\ responses[1].kind = "raise"
    /\ responses[2].kind = "none"
    /\ entries[1].ID # entries[2].ID

\* C2: an oracle call that raises gives its entry the sentinel verdict
\* {not-sure, api-error, "Evaluation failed"}, nothing propagates, and
\* process_entries goes on to call the oracle for every remaining entry.
C2_ApiErrorSentinelAndContinue ==
    /\ Len(responses) = Len(results)
    /\ \A i \in 1..Len(results) :
          responses[i].kind = "raise" => Sentinel(results[i], ApiErrorSentinel)
    /\ (\E i \in 1..Len(responses) : responses[i].kind = "raise")
          => /\ pc = "process_entries" => idx = Len(results)
             /\ AfterProcessEntries => Len(responses) = Len(entries)

\* C2 witness: the first call raised, and the second entry was still evaluated
\* and accepted.
C2_Witness ==
    /\ pc = "write_results_to_csv"
    /\ Len(results) = 2
    /\ responses[1].kind = "raise"
    /\ results[1].criteria = API_ERROR
    /\ results[2].status = ACCEPTED

\* C10 (state part): the requests sent so far are those of entries 1..idx, one
\* each and in order, and at most one of them has no verdict yet.
SequentialCallsInv ==
    /\ Len(calls) = idx
    /\ \A i \in 1..Len(calls) :
          /\ calls[i].index = i
          /\ calls[i].title = Get(entries[i], "title", "")
          /\ calls[i].abstract = Get(entries[i], "abstract", "")
    /\ Len(results) = (IF pc = "oracle" THEN Len(calls) - 1 ELSE Len(calls))
    /\ AfterProcessEntries => Len(calls) = Len(entries)

\* C10: process_entries issues exactly one oracle call per entry, in entry
\* order and one at a time: a request is sent only when every earlier request
\* has its verdict appended, one request per step, and a failed call is never
\* sent again.
C10_SequentialCallsNoRetry ==
    /\ []SequentialCallsInv
    /\ [][calls' # calls =>
             /\ Len(results) = Len(calls)
             /\ Len(calls') = Len(calls) + 1
             /\ calls'[Len(calls')].index = Len(results) + 1]_vars

\* C10 witness: the second request is in flight after the first call raised.
C10_Witness ==
    /\ pc = "oracle"
    /\ Len(calls) = 2
    /\ Len(results) = 1
    /\ responses[1].kind = "raise"

\* C7: when the criteria document or the bibliography cannot be loaded,
\* process_bib raises the error to its caller and, in that run, no oracle call
\* is made, no results file is written and no statistics are reported.
C7_LoadFailureAborts ==
    (~fs_criteria.exists \/ ~fs_bib.exists) =>
        /\ calls = << >>
        /\ fs_results = NoFile
        /\ ~stats.reported
        /\ AfterProcessBib => bib_raised = "FileNotFoundError"

\* C7 witness: the criteria document was there, the bibliography was not, and
\* the run is over.
C7_Witness ==
    /\ pc = "done"
    /\ fs_criteria.exists
    /\ ~fs_bib.exists
    /\ bib_raised = "FileNotFoundError"

\* C4 (the claim as stated): when process_bib or create_accepted_bib raises,
\* the tool exits with a non-zero status and has logged its elapsed time.
C4_ToolsExitNonZeroOnFailure ==
    /\ (exit1 # "running" /\ bib_raised # "") => (exit1 = "exit 1" /\ elapsed1)
    /\ (exit2 # "running" /\ filter_raised # "") => (exit2 = "exit 1" /\ elapsed2)

\* C5 (the claim as stated): calculate_statistics applied to no verdicts (an
\* empty bibliography whose results file was written) returns normally.
C5_StatisticsGuardEmpty ==
    (fs_results.exists /\ results = << >>
        /\ pc \in {"process_bib_except", "main_except", "main_finally", "filter_main", "done"})
    => (exc = "" /\ bib_raised = "")

\* C9 (the claim as stated): every verdict of process_entries has a status among
\* "accepted", "rejected" and "not-sure", so calculate_statistics never meets
\* an unknown status key.
C9_StatusInEnum ==
    /\ \A i \in 1..Len(results) : results[i].status \in {ACCEPTED, REJECTED, NOT_SURE}
    /\ exc # "KeyError"

UniqueKeys(es) == \A i, j \in 1..Len(es) : es[i].ID = es[j].ID => i = j

InSeq(x, sq) == \E j \in 1..Len(sq) : sq[j] = x

\* C8: after the evaluation tool wrote its results and the filter tool ran on
\* the same bibliography (unique keys), there is one results row per entry, an
\* entry is in the filtered bibliography exactly when its verdict's status is
\* "accepted", and an entry whose oracle call raised or whose response could
\* not be parsed is not in it.
C8_FilteredIffAccepted ==
    (pc = "done" /\ exit2 = "exit 0" /\ fs_results.exists /\ UniqueKeys(fs_bib.content))
    => /\ Len(fs_results.content) = Len(fs_bib.content)
       /\ \A i \in 1..Len(fs_bib.content) :
             /\ fs_results.content[i].citekey = fs_bib.content[i].ID
             /\ InSeq(fs_bib.content[i], fs_accepted.content)
                   <=> results[i].status = ACCEPTED
             /\ responses[i].kind \in {"raise", "none"}
                   => ~InSeq(fs_bib.content[i], fs_accepted.content)

\* C8 witness: two entries with different keys, the first accepted and in the
\* filtered bibliography, the second failed and left out.
C8_Witness ==
    /\ pc = "done"
    /\ exit2 = "exit 0"
    /\ Len(fs_bib.content) = 2
    /\ UniqueKeys(fs_bib.content)
    /\ results[1].status = ACCEPTED
    /\ responses[2].kind = "raise"
    /\ fs_accepted.content = <<fs_bib.content[1]>>

\* Two texts are equal when letter case is ignored.
EqualsIgnoreCase(a, b) ==
    /\ Len(a) = Len(b)
    /\ \A k \in 1..Len(a) : PyLowerChar(a[k]) = PyLowerChar(b[k])

WellFormed(rows) == \A i \in 1..Len(rows) : "status" \in DOMAIN rows[i]

Restrict(fs, kind) == SelectSeq(fs, LAMBDA f : f.kind = kind)

\* The first fragment of fs that the pattern of its field matches.
StatusHits(fs) == {i \in 1..Len(fs) : fs[i].kind = "status" /\ fs[i].valid}
CriteriaHits(fs) == {i \in 1..Len(fs) : fs[i].kind = "criteria" /\ fs[i].valid /\ fs[i].exact}
ReasoningHits(fs) == {i \in 1..Len(fs) : fs[i].kind = "reasoning" /\ fs[i].exact}

\* The text from the value of fragment i to the end of the response.
FromValue(fs, i) ==
    IF i = Len(fs) THEN fs[i].value
    ELSE fs[i].value \o <<"\n">> \o RenderFrags(SubSeq(fs, i + 1, Len(fs)))

\* C6 (amended): the status is found whatever the letter case of its label and
\* value and is returned in lower case; the criteria and the reasoning are
\* found only under the labels "Criteria:" and "Reasoning:" written exactly so
\* (the code in capitals), and get their defaults otherwise; with each field on
\* a line of its own and no field's text holding another field's pattern, the
\* status and the criteria do not depend on the other fields' presence; the
\* reasoning is all the text after its label, later fields included.
C6_ParseFieldsAmended ==
    (pc = "parsed" /\ response.kind = "text") =>
        /\ parsed.status =
              (IF StatusHits(frags) = {} THEN NOT_SURE
               ELSE PyLower(frags[Leftmost(StatusHits(frags))].value))
        /\ parsed.criteria =
              (IF CriteriaHits(frags) = {} THEN NOT_SPECIFIED
               ELSE frags[Leftmost(CriteriaHits(frags))].value)
        /\ parsed.reasoning =
              (IF ReasoningHits(frags) = {} THEN EMPTY
               ELSE FromValue(frags, Leftmost(ReasoningHits(frags))))
        /\ parsed.status =
              parse_response(Content(RenderFrags(Restrict(frags, "status")))).status
        /\ parsed.criteria =
              parse_response(Content(RenderFrags(Restrict(frags, "criteria")))).criteria

\* C6 witness: "status: REJECTED", "criteria: ci3", "REASONING: fits" parses to
\* rejected, not-specified and the empty reasoning.
C6_Witness ==
    /\ pc = "parsed"
    /\ Len(frags) = 3
    /\ frags[1].kind = "status" /\ ~frags[1].exact
    /\ frags[2].kind = "criteria" /\ ~frags[2].exact
    /\ frags[3].kind = "reasoning" /\ ~frags[3].exact
    /\ parsed.status = REJECTED
    /\ parsed.criteria = NOT_SPECIFIED
    /\ parsed.reasoning = EMPTY

\* C6 (the claim as stated): a field present in any letter case of its label
\* or value is extracted rather than defaulted, and no field's value depends on
\* the presence of another field.
C6_ParseAllFieldsIgnoreCase ==
    (pc = "parsed" /\ response.kind = "text") =>
        /\ \A i \in 1..Len(frags) :
              (frags[i].kind = "criteria" /\ frags[i].valid
                  /\ \A j \in 1..(i - 1) : frags[j].kind # "criteria")
              => EqualsIgnoreCase(parsed.criteria, frags[i].value)
        /\ \A i \in 1..Len(frags) :
              (frags[i].kind = "status" /\ frags[i].valid
                  /\ \A j \in 1..(i - 1) : frags[j].kind # "status")
              => parsed.status = PyLower(frags[i].value)
        /\ (\E i \in 1..Len(frags) : frags[i].kind = "reasoning")
              => parsed.reasoning # EMPTY
        /\ parsed.reasoning =
              parse_response(Content(RenderFrags(Restrict(frags, "reasoning")))).reasoning

====
